---- MODULE Spec2Model ----
(***************************************************************************)
(* Model of the JEE flash-card application: the mixed Markdown + math      *)
(* renderer (LatexRenderer, specification Spec), and the App component     *)
(* with the data service it loads its questions from (specification        *)
(* SpecApp).                                                               *)
(*                                                                         *)
(* A text is a sequence of one-character strings.  Markup emitted by the   *)
(* two libraries (marked, KaTeX) is a sequence too, whose tags are single  *)
(* elements such as "<p>".                                                 *)
(***************************************************************************)
EXTENDS Integers, Sequences, FiniteSets, TLC

VARIABLES
    pc,            \* position of the render callback: idle, start, pass1..pass4, parse, restore, done, thrown
    text,          \* the text prop of the current call
    textGiven,     \* FALSE when the text prop is absent (undefined)
    block,         \* the block prop (displayAsBlock)
    counter,       \* let counter
    latexMap,      \* const latexMap: entries [id, type, math] in insertion order
    protectedText, \* let protectedText
    rawHtml,       \* let rawHtml
    ri,            \* index of the entry latexMap.forEach is visiting
    htmlContent,   \* the value the callback returned
    mathStub,      \* which math transform is installed: "katex" or "raising"
    ruleOf,        \* history: ruleOf[i] is the pass (1..4) that created entry i
    parsedHtml,    \* history: what marked.parse returned in this call
    katexLog,      \* history: the katex.renderToString calls of this call
    replaceCalls,  \* history: number of replaceMath calls of this call
    markedCalls,   \* history: number of marked.parse calls of this call
    mdThrew,       \* history: marked.parse raised in this call
    status,          \* App: useState status
    questions,       \* App: useState questions
    currentIndex,    \* App: useState currentIndex
    isFlipped,       \* App: useState isFlipped
    searchQuery,     \* App: useState searchQuery
    selectedSubject, \* App: useState selectedSubject
    jumpInput,       \* App: useState jumpInput
    timers,          \* App: the pending setTimeout callbacks, oldest first: 1 for prev + 1, -1 for prev - 1
    fetchPc,         \* fetchQuestions: none, fetch, normalize, catch, resolved, rejected, settled
    response,        \* fetchQuestions: what fetch and response.json() gave
    fetchResult,     \* fetchQuestions: the value the promise resolved to
    lastJump         \* history: "accepted" or "rejected" when the last event was a handleJump, else "none"

renderVars == <<pc, text, textGiven, block, counter, latexMap, protectedText, rawHtml, ri,
                htmlContent, mathStub, ruleOf, parsedHtml, katexLog, replaceCalls,
                markedCalls, mdThrew>>

appVars == <<status, questions, currentIndex, isFlipped, searchQuery, selectedSubject,
             jumpInput, timers, fetchPc, response, fetchResult, lastJump>>

vars == <<renderVars, appVars>>

---------------------------------------------------------------------------
(* Bounds *)

\* Inputs are all concatenations of at most MaxPieces pieces, plus the named examples.
MaxPieces == 3

---------------------------------------------------------------------------
(* Strings *)

MinOf(S) == CHOOSE k \in S : \A m \in S : k <= m

\* p occurs in s at position i
MatchAt(s, p, i) ==
    /\ i >= 1
    /\ i + Len(p) - 1 <= Len(s)
    /\ \A k \in 1..Len(p) : s[i + k - 1] = p[k]

\* first position >= i where p occurs in s, 0 when there is none
FindFrom(s, p, i) ==
    LET S == {k \in i..(Len(s) - Len(p) + 1) : MatchAt(s, p, k)}
    IN  IF S = {} THEN 0 ELSE MinOf(S)

Contains(s, p) == FindFrom(s, p, 1) # 0

CountOf(s, c) == Cardinality({i \in 1..Len(s) : s[i] = c})

DigitChars == <<"0", "1", "2", "3", "4", "5", "6", "7", "8", "9">>

\* decimal representation of a natural number, as `${counter}` formats it
RECURSIVE Digits(_)
Digits(n) ==
    IF n < 10 THEN <<DigitChars[n + 1]>>
    ELSE Append(Digits(n \div 10), DigitChars[(n % 10) + 1])

TokenHead == <<"M", "A", "T", "H", "I", "T", "E", "M">>
TokenTail == <<"E", "N", "D">>

\* the counter left out of the token: every span gets the token of counter 0
TokenUnnumbered(n) == TokenHead \o Digits(0) \o TokenTail

\* `MATHITEM${counter}END`
Token(n) == TokenHead \o Digits(n) \o TokenTail

IsDigit(c) == \E d \in 1..10 : DigitChars[d] = c

\* s has a substring matching MATHITEM<digits>END
HasPlaceholder(s) ==
    \E i \in 1..Len(s) :
        /\ MatchAt(s, TokenHead, i)
        /\ \E e \in (i + Len(TokenHead) + 1)..Len(s) :
              /\ MatchAt(s, TokenTail, e)
              /\ \A d \in (i + Len(TokenHead))..(e - 1) : IsDigit(s[d])

\* s.split(id).join(rep): every occurrence of id, scanning left to right
RECURSIVE SplitJoinFrom(_, _, _, _, _)
SplitJoinFrom(s, id, rep, i, out) ==
    IF i > Len(s) THEN out
    ELSE IF MatchAt(s, id, i) THEN SplitJoinFrom(s, id, rep, i + Len(id), out \o rep)
    ELSE SplitJoinFrom(s, id, rep, i + 1, Append(out, s[i]))

SplitJoin(s, id, rep) == SplitJoinFrom(s, id, rep, 1, <<>>)

---------------------------------------------------------------------------
(* The four delimiter rules, in the order the passes apply them *)

Dollar == <<"$">>
DoubleDollar == <<"$", "$">>
OpenBracket == <<"\\", "[">>
CloseBracket == <<"\\", "]">>
OpenParen == <<"\\", "(">>
CloseParen == <<"\\", ")">>

\* the single-dollar rule put first
Rule1SingleDollar == [open |-> Dollar, close |-> Dollar, type |-> "inline"]

\* /\$\$([\s\S]*?)\$\$/g, 'block'
Rule1 == [open |-> DoubleDollar, close |-> DoubleDollar, type |-> "block"]
\* /\\\[([\s\S]*?)\\\]/g, 'block'
Rule2 == [open |-> OpenBracket, close |-> CloseBracket, type |-> "block"]
\* /\\\(([\s\S]*?)\\\)/g, 'inline'
Rule3 == [open |-> OpenParen, close |-> CloseParen, type |-> "inline"]
\* /\$([\s\S]*?)\$/g, 'inline'
Rule4 == [open |-> Dollar, close |-> Dollar, type |-> "inline"]

Rules == <<Rule1, Rule2, Rule3, Rule4>>

---------------------------------------------------------------------------
(* replaceMath *)

\* Map.prototype.set: overwrite the entry of an existing key, else append
MapSet(map, id, data) ==
    IF \E k \in 1..Len(map) : map[k].id = id
    THEN [k \in 1..Len(map) |->
            IF map[k].id = id THEN [id |-> id, type |-> data.type, math |-> data.math]
            ELSE map[k]]
    ELSE Append(map, [id |-> id, type |-> data.type, math |-> data.math])

\* the closer is taken even when it is missing: the span runs to the end of the text
ClosePosOrEnd(str, rule, i) ==
    LET j == FindFrom(str, rule.close, i + Len(rule.open))
    IN  IF j = 0 THEN Len(str) + 1 ELSE j

\* the group needs at least one character, ([\s\S]+?)
ClosePosNonEmpty(str, rule, i) == FindFrom(str, rule.close, i + Len(rule.open) + 1)

\* ([\s\S]*?)close after an opener at i: the lazy group stops at the first closer
\* at or after the end of the opener; 0 when the text has none
ClosePos(str, rule, i) == FindFrom(str, rule.close, i + Len(rule.open))

\* str.replace(regex, callback) for the regex open([\s\S]*?)close with the g flag:
\* at each position the opener must match and the lazy group ends at the first
\* closer after it; a match is replaced by the next token and scanning resumes
\* after the closer; otherwise the character is kept and scanning moves on by one.
RECURSIVE ReplaceFrom(_, _, _, _, _, _)
ReplaceFrom(str, rule, i, out, cnt, map) ==
    IF i > Len(str) THEN [text |-> out, counter |-> cnt, map |-> map]
    ELSE LET j == IF MatchAt(str, rule.open, i) THEN ClosePos(str, rule, i) ELSE 0
         IN  IF j = 0
             THEN ReplaceFrom(str, rule, i + 1, Append(out, str[i]), cnt, map)
             ELSE ReplaceFrom(str, rule, j + Len(rule.close), out \o Token(cnt), cnt + 1,
                              MapSet(map, Token(cnt),
                                     [type |-> rule.type,
                                      math |-> SubSeq(str, i + Len(rule.open), j - 1)]))

replaceMath(str, rule, cnt, map) == ReplaceFrom(str, rule, 1, <<>>, cnt, map)

---------------------------------------------------------------------------
(* marked.parse with gfm and breaks, on the characters the inputs use *)

\* characters a backslash escapes in Markdown (ASCII punctuation)
MdEscapable == {"$", "\\", "[", "]", "(", ")", "{", "}", "^", "+", "*", "_"}

\* inline text: a backslash before punctuation is dropped, the punctuation kept
RECURSIVE MdInlineFrom(_, _, _)
MdInlineFrom(s, i, out) ==
    IF i > Len(s) THEN out
    ELSE IF s[i] = "\\" /\ i < Len(s) /\ s[i + 1] \in MdEscapable
         THEN MdInlineFrom(s, i + 2, Append(out, s[i + 1]))
         ELSE MdInlineFrom(s, i + 1, Append(out, s[i]))

\* a single paragraph; the empty document renders to the empty string
Marked(s) ==
    IF s = <<>> THEN <<>>
    ELSE <<"<p>">> \o MdInlineFrom(s, 1, <<>>) \o <<"</p>", "\n">>

---------------------------------------------------------------------------
(* katex.renderToString(math, {displayMode, throwOnError: false, output: 'html',
   trust: true}) *)

\* sources KaTeX cannot parse, among the characters the inputs use: a dollar or a
\* \[ \] \( \) inside math mode, an unbalanced brace
KatexParseError(math) ==
    \E i \in 1..Len(math) : math[i] \in {"$", "\\", "{"}

\* one span per symbol; spaces are ignored in math mode
RECURSIVE KatexOrds(_, _, _)
KatexOrds(math, i, out) ==
    IF i > Len(math) THEN out
    ELSE IF math[i] = " " THEN KatexOrds(math, i + 1, out)
    ELSE KatexOrds(math, i + 1, out \o <<"<span class='mord'>", math[i], "</span>">>)

\* the HTML of a successful call; with throwOnError false a parse error is rendered
\* as the source text in an error-coloured span
KatexHtml(math, displayMode) ==
    IF KatexParseError(math)
    THEN <<"<span class='katex-error' title='ParseError'>">> \o math \o <<"</span>">>
    ELSE LET body == <<"<span class='katex'>">> \o KatexOrds(math, 1, <<>>) \o <<"</span>">>
         IN  IF displayMode
             THEN <<"<span class='katex-display'>">> \o body \o <<"</span>">>
             ELSE body

\* the installed math transform raises: never for KaTeX itself under throwOnError
\* false, on unparsable sources for a transform that raises on errors
KatexThrows(math) == mathStub = "raising" /\ KatexParseError(math)

\* `${e}` of the caught error
ErrorDetail == <<"ParseError: KaTeX parse error">>

\* the display mode taken from the block prop
DisplayModeFromProp(data) == block

\* displayMode: data.type === 'block'
DisplayMode(data) == data.type = "block"

\* `<span class="text-red-400 error" title="${e}">$${data.math}$</span>`
ErrorFragment(math) ==
    <<"<span class='text-red-400 error' title='">> \o ErrorDetail \o <<"'>", "$">>
        \o math \o <<"$", "</span>">>

---------------------------------------------------------------------------
(* Inputs *)

\* "$$x^2$$ and $y$"
ExPrecedence ==
    <<"$", "$", "x", "^", "2", "$", "$", " ", "a", "n", "d", " ", "$", "y", "$">>
\* "$a$$b$"
ExAmbiguous == <<"$", "a", "$", "$", "b", "$">>
\* "cost is $5 today"
ExCost ==
    <<"c", "o", "s", "t", " ", "i", "s", " ", "$", "5", " ", "t", "o", "d", "a", "y">>
\* "\[x+1\]"
ExBracketBlock == <<"\\", "[", "x", "+", "1", "\\", "]">>
\* "$$x+1$$"
ExDollarBlock == <<"$", "$", "x", "+", "1", "$", "$">>
\* "$$$$"
ExEmptyBlock == <<"$", "$", "$", "$">>
\* "$ $"
ExBlankInline == <<"$", " ", "$">>
\* "$\[x\]{$"
ExNested == <<"$", "\\", "[", "x", "\\", "]", "{", "$">>
\* "$$a{$$ \(b\) $c$"
ExMixed ==
    <<"$", "$", "a", "{", "$", "$", " ", "\\", "(", "b", "\\", ")", " ", "$", "c", "$">>

Examples ==
    {ExPrecedence, ExAmbiguous, ExCost, ExBracketBlock, ExDollarBlock, ExEmptyBlock,
     ExBlankInline, ExNested, ExMixed}

\* what generated inputs are made of: the delimiters, plain content, and text that
\* spells a placeholder
Pieces ==
    {Dollar, DoubleDollar, OpenBracket, CloseBracket, OpenParen, CloseParen,
     <<"x">>, Token(0)}

RECURSIVE TextsOf(_)
TextsOf(n) ==
    IF n = 0 THEN {<<>>}
    ELSE LET T == TextsOf(n - 1) IN T \cup {t \o p : t \in T, p \in Pieces}

Inputs == TextsOf(MaxPieces) \cup Examples

---------------------------------------------------------------------------
(* The useMemo callback of LatexRenderer *)

\* a guard that tests for an absent text only
FalsyAbsentOnly(t, given) == ~given

\* if (!text): the empty string and undefined are falsy
Falsy(t, given) == ~given \/ t = <<>>

\* a counter that lives outside the callback and is never reset
StaleCounter == counter

\* let counter = 0
NewCounter == 0

\* new Map()
NewMap == <<>>

Init ==
    /\ pc = "idle"
    /\ text = <<>>
    /\ textGiven = TRUE
    /\ block = FALSE
    /\ counter = 0
    /\ latexMap = <<>>
    /\ protectedText = <<>>
    /\ rawHtml = <<>>
    /\ ri = 0
    /\ htmlContent = <<>>
    /\ mathStub \in {"katex", "raising"}
    /\ ruleOf = <<>>
    /\ parsedHtml = <<>>
    /\ katexLog = <<>>
    /\ replaceCalls = 0
    /\ markedCalls = 0
    /\ mdThrew = FALSE
    /\ status = "idle"
    /\ questions = <<>>
    /\ currentIndex = 0
    /\ isFlipped = FALSE
    /\ searchQuery = <<>>
    /\ selectedSubject = <<"A", "l", "l">>
    /\ jumpInput = <<"1">>
    /\ timers = <<>>
    /\ fetchPc = "none"
    /\ response = [kind |-> "none", data |-> [t |-> "null", items |-> <<>>, hasQuestions |-> FALSE]]
    /\ fetchResult = <<>>
    /\ lastJump = "none"

\* the component renders with props text (possibly absent) and block, and React
\* runs the useMemo callback
Call ==
    /\ pc = "idle"
    /\ \E given \in BOOLEAN, b \in BOOLEAN :
        \E t \in (IF given THEN Inputs ELSE {<<>>}) :
            /\ text' = t
            /\ textGiven' = given
            /\ block' = b
    /\ pc' = "start"
    /\ UNCHANGED <<counter, latexMap, protectedText, rawHtml, ri, htmlContent, mathStub,
                   ruleOf, parsedHtml, katexLog, replaceCalls, markedCalls, mdThrew>>
    /\ UNCHANGED appVars

\* if (!text) return ""; otherwise the locals latexMap, counter and protectedText
\* are created
Begin ==
    /\ pc = "start"
    /\ IF Falsy(text, textGiven)
       THEN /\ pc' = "done"
            /\ htmlContent' = <<>>
            /\ UNCHANGED <<counter, latexMap, protectedText>>
       ELSE /\ pc' = "pass1"
            /\ latexMap' = NewMap
            /\ counter' = NewCounter
            /\ protectedText' = text
            /\ UNCHANGED htmlContent
    /\ UNCHANGED <<text, textGiven, block, rawHtml, ri, mathStub, ruleOf, parsedHtml,
                   katexLog, replaceCalls, markedCalls, mdThrew>>
    /\ UNCHANGED appVars

\* protectedText = replaceMath(protectedText, <regex k>, <type k>)
Pass(k, next) ==
    /\ pc = next[1]
    /\ LET r == replaceMath(protectedText, Rules[k], counter, latexMap)
       IN  /\ protectedText' = r.text
           /\ counter' = r.counter
           /\ latexMap' = r.map
           /\ ruleOf' = ruleOf \o [i \in 1..(Len(r.map) - Len(latexMap)) |-> k]
    /\ replaceCalls' = replaceCalls + 1
    /\ pc' = next[2]
    /\ UNCHANGED <<text, textGiven, block, rawHtml, ri, htmlContent, mathStub,
                   parsedHtml, katexLog, markedCalls, mdThrew>>
    /\ UNCHANGED appVars

Pass1 == Pass(1, <<"pass1", "pass2">>)
Pass2 == Pass(2, <<"pass2", "pass3">>)
Pass3 == Pass(3, <<"pass3", "pass4">>)
Pass4 == Pass(4, <<"pass4", "parse">>)

\* let rawHtml = marked.parse(protectedText)
ParseOk ==
    /\ pc = "parse"
    /\ rawHtml' = Marked(protectedText)
    /\ parsedHtml' = Marked(protectedText)
    /\ markedCalls' = markedCalls + 1
    /\ ri' = 1
    /\ pc' = "restore"
    /\ UNCHANGED <<text, textGiven, block, counter, latexMap, protectedText, htmlContent,
                   mathStub, ruleOf, katexLog, replaceCalls, mdThrew>>
    /\ UNCHANGED appVars

\* marked.parse raises and the callback goes on with the unparsed text
ParseCaught ==
    /\ pc = "parse"
    /\ markedCalls' = markedCalls + 1
    /\ mdThrew' = TRUE
    /\ rawHtml' = protectedText
    /\ ri' = 1
    /\ pc' = "restore"
    /\ UNCHANGED <<text, textGiven, block, counter, latexMap, protectedText, htmlContent,
                   mathStub, ruleOf, parsedHtml, katexLog, replaceCalls>>
    /\ UNCHANGED appVars

\* marked.parse raises: nothing in the callback catches it
ParseThrow ==
    /\ pc = "parse"
    /\ markedCalls' = markedCalls + 1
    /\ mdThrew' = TRUE
    /\ pc' = "thrown"
    /\ UNCHANGED <<text, textGiven, block, counter, latexMap, protectedText, rawHtml, ri,
                   htmlContent, mathStub, ruleOf, parsedHtml, katexLog, replaceCalls>>
    /\ UNCHANGED appVars

\* one iteration of latexMap.forEach, try branch
RestoreRender ==
    /\ pc = "restore"
    /\ ri <= Len(latexMap)
    /\ LET data == latexMap[ri]
       IN  /\ ~KatexThrows(data.math)
           /\ rawHtml' = SplitJoin(rawHtml, data.id,
                                   KatexHtml(data.math, DisplayMode(data)))
           /\ katexLog' = Append(katexLog, [math |-> data.math,
                                            displayMode |-> DisplayMode(data),
                                            threw |-> FALSE])
    /\ ri' = ri + 1
    /\ UNCHANGED <<pc, text, textGiven, block, counter, latexMap, protectedText,
                   htmlContent, mathStub, ruleOf, parsedHtml, replaceCalls, markedCalls,
                   mdThrew>>
    /\ UNCHANGED appVars

\* one iteration of latexMap.forEach with no try/catch: the error escapes
RestoreRethrow ==
    /\ pc = "restore"
    /\ ri <= Len(latexMap)
    /\ KatexThrows(latexMap[ri].math)
    /\ katexLog' = Append(katexLog, [math |-> latexMap[ri].math,
                                     displayMode |-> DisplayMode(latexMap[ri]),
                                     threw |-> TRUE])
    /\ pc' = "thrown"
    /\ UNCHANGED <<text, textGiven, block, counter, latexMap, protectedText, rawHtml, ri,
                   htmlContent, mathStub, ruleOf, parsedHtml, replaceCalls, markedCalls,
                   mdThrew>>
    /\ UNCHANGED appVars

\* one iteration of latexMap.forEach, catch branch
RestoreCatch ==
    /\ pc = "restore"
    /\ ri <= Len(latexMap)
    /\ LET data == latexMap[ri]
       IN  /\ KatexThrows(data.math)
           /\ rawHtml' = SplitJoin(rawHtml, data.id, ErrorFragment(data.math))
           /\ katexLog' = Append(katexLog, [math |-> data.math,
                                            displayMode |-> DisplayMode(data),
                                            threw |-> TRUE])
    /\ ri' = ri + 1
    /\ UNCHANGED <<pc, text, textGiven, block, counter, latexMap, protectedText,
                   htmlContent, mathStub, ruleOf, parsedHtml, replaceCalls, markedCalls,
                   mdThrew>>
    /\ UNCHANGED appVars

\* return rawHtml
Finish ==
    /\ pc = "restore"
    /\ ri > Len(latexMap)
    /\ htmlContent' = rawHtml
    /\ pc' = "done"
    /\ UNCHANGED <<text, textGiven, block, counter, latexMap, protectedText, rawHtml, ri,
                   mathStub, ruleOf, parsedHtml, katexLog, replaceCalls, markedCalls,
                   mdThrew>>
    /\ UNCHANGED appVars

\* the call is over: its table and strings are garbage.  The counter variable is
\* left holding its last value, so that it is the next call's `let counter = 0`
\* that makes the numbering start again.
Return ==
    /\ pc \in {"done", "thrown"}
    /\ pc' = "idle"
    /\ text' = <<>>
    /\ textGiven' = TRUE
    /\ block' = FALSE
    /\ latexMap' = <<>>
    /\ protectedText' = <<>>
    /\ rawHtml' = <<>>
    /\ ri' = 0
    /\ htmlContent' = <<>>
    /\ ruleOf' = <<>>
    /\ parsedHtml' = <<>>
    /\ katexLog' = <<>>
    /\ replaceCalls' = 0
    /\ markedCalls' = 0
    /\ mdThrew' = FALSE
    /\ UNCHANGED <<counter, mathStub>>
    /\ UNCHANGED appVars

Next ==
    \/ Call
    \/ Begin
    \/ Pass1
    \/ Pass2
    \/ Pass3
    \/ Pass4
    \/ ParseOk
    \/ ParseThrow
    \/ RestoreRender
    \/ RestoreCatch
    \/ Finish
    \/ Return

Spec == Init /\ [][Next]_vars

---------------------------------------------------------------------------
(* Values of the quiz JSON and strings of the application *)

\* a JSON value where the code reads a field: [t, s, n] with t the typeof/null
\* tag, s the characters of a string and n the value of a number
JsUndefined == [t |-> "undefined", s |-> <<>>, n |-> 0]
JsString(s) == [t |-> "string", s |-> s, n |-> 0]
JsNumber(n) == [t |-> "number", s |-> <<>>, n |-> n]

\* !!v
Truthy(v) ==
    CASE v.t = "string" -> v.s # <<>>
      [] v.t = "number" -> v.n # 0
      [] OTHER -> FALSE

\* a || b
JsOr(a, b) == IF Truthy(a) THEN a ELSE b

UpperChars == <<"A", "B", "C", "D", "E", "F", "G", "H", "I", "J", "K", "L",
       "M", "N", "O", "P", "Q", "R", "S", "T", "U", "V", "W", "X", "Y", "Z">>
LowerChars == <<"a", "b", "c", "d", "e", "f", "g", "h", "i", "j", "k", "l",
       "m", "n", "o", "p", "q", "r", "s", "t", "u", "v", "w", "x", "y", "z">>

\* String.prototype.toLowerCase
ToLowerCase(s) ==
    [i \in 1..Len(s) |->
        IF \E k \in 1..Len(UpperChars) : UpperChars[k] = s[i]
        THEN LowerChars[CHOOSE k \in 1..Len(UpperChars) : UpperChars[k] = s[i]]
        ELSE s[i]]

WhiteSpace == {" ", "\t", "\n"}

\* String.prototype.trim
Trim(s) ==
    LET Keep == {i \in 1..Len(s) : s[i] \notin WhiteSpace}
    IN  IF Keep = {} THEN <<>>
        ELSE SubSeq(s, MinOf(Keep), CHOOSE i \in Keep : \A k \in Keep : k <= i)

\* Number.prototype.toString for an integer
IntToString(n) == IF n < 0 THEN <<"-">> \o Digits(-n) ELSE Digits(n)

RECURSIVE DigitsValue(_, _, _)
DigitsValue(s, i, acc) ==
    IF i > Len(s) \/ ~IsDigit(s[i]) THEN acc
    ELSE DigitsValue(s, i + 1,
                     acc * 10 + (CHOOSE d \in 0..9 : DigitChars[d + 1] = s[i]))

\* parseInt(s, 10): leading white space is skipped, then an optional sign, then
\* the longest run of digits; what follows the digits is ignored; NaN when there
\* is no digit at that place
ParseInt(s) ==
    LET body == {i \in 1..Len(s) : s[i] \notin WhiteSpace}
        b    == IF body = {} THEN Len(s) + 1 ELSE MinOf(body)
        sign == b <= Len(s) /\ s[b] \in {"-", "+"}
        d    == IF sign THEN b + 1 ELSE b
    IN  IF d > Len(s) \/ ~IsDigit(s[d]) THEN [nan |-> TRUE, num |-> 0]
        ELSE [nan |-> FALSE,
              num |-> IF sign /\ s[b] = "-" THEN -DigitsValue(s, d, 0)
                      ELSE DigitsValue(s, d, 0)]

StrAll == <<"A", "l", "l">>
StrPhysics == <<"P", "h", "y", "s", "i", "c", "s">>
StrChemistry == <<"C", "h", "e", "m", "i", "s", "t", "r", "y">>
StrMathematics == <<"M", "a", "t", "h", "e", "m", "a", "t", "i", "c", "s">>
StrGeneral == <<"G", "e", "n", "e", "r", "a", "l">>
StrQuestionTextMissing == <<"Q", "u", "e", "s", "t", "i", "o", "n", " ",
       "T", "e", "x", "t", " ", "M", "i", "s", "s", "i", "n", "g">>

FallbackQuestion ==
    <<"I", "f", " ", "$", "f", "(", "x", ")", " ", "=", " ", "x", "^", "2",
       " ", "+", " ", "2", "x", " ", "+", " ", "1", "$", ",", " ", "w",
       "h", "a", "t", " ", "i", "s", " ", "$", "f", "(", "1", ")", "$", "?">>

FallbackSolution ==
    <<"S", "u", "b", "s", "t", "i", "t", "u", "t", "e", " ", "$", "x", "=",
       "1", "$", ":", " ", "$", "f", "(", "1", ")", " ", "=", " ", "1",
       "^", "2", " ", "+", " ", "2", "(", "1", ")", " ", "+", " ", "1",
       " ", "=", " ", "1", " ", "+", " ", "2", " ", "+", " ", "1", " ",
       "=", " ", "4", "$", ".">>

\* const FALLBACK_DATA (the options, always empty, are left out of a question)
FALLBACK_DATA ==
    << [id |-> 1, subject |-> StrMathematics, question |-> FallbackQuestion,
        answer |-> <<"4">>, solution |-> FallbackSolution] >>

---------------------------------------------------------------------------
(* dataService: mapSubject, normalizeData, fetchQuestions *)

\* shortSubject?.toLowerCase() raises a TypeError when shortSubject is neither
\* nullish nor a string
MapSubjectThrows(shortSubject) == shortSubject.t \notin {"undefined",
       "null", "string"}

\* map[shortSubject?.toLowerCase()] || shortSubject || 'General'
mapSubject(shortSubject) ==
    LET key == IF shortSubject.t = "string" THEN ToLowerCase(shortSubject.s) ELSE <<>>
    IN  IF shortSubject.t = "string" /\ key = <<"p", "h",
       "y">> THEN JsString(StrPhysics)
        ELSE IF shortSubject.t = "string" /\ key = <<"c", "h", "e",
       "m">> THEN JsString(StrChemistry)
        ELSE IF shortSubject.t = "string" /\ key = <<"m", "a", "t",
       "h">> THEN JsString(StrMathematics)
        ELSE JsOr(shortSubject, JsString(StrGeneral))

\* String(v) for a string or a number
JsToString(v) == IF v.t = "number" THEN IntToString(v.n) ELSE v.s

\* an item of the questions array: t is "object" or "null", the fields are JSON values
ItemOf(question, gold, subject, index) ==
    [t |-> "object", question |-> question, gold |-> gold, answer |-> JsUndefined,
     subject |-> subject, index |-> index, solution |-> JsUndefined]

ItemNull ==
    [t |-> "null", question |-> JsUndefined, gold |-> JsUndefined,
       answer |-> JsUndefined,
     subject |-> JsUndefined, index |-> JsUndefined, solution |-> JsUndefined]

ItemPhy == ItemOf(JsString(<<"a", "b">>), JsString(<<"A">>),
       JsString(<<"p", "h", "y">>), JsNumber(7))
ItemMath == ItemOf(JsString(<<"B", "c">>), JsUndefined, JsString(<<"M",
       "a", "t", "h">>), JsNumber(0))
ItemBare == ItemOf(JsUndefined, JsUndefined, JsUndefined, JsUndefined)
ItemOddSubject == ItemOf(JsString(<<"a", "b">>), JsUndefined, JsNumber(5),
       JsUndefined)

Items == {ItemPhy, ItemMath, ItemBare, ItemOddSubject, ItemNull}

\* the callback of list.map on an item that is an object (lines 38-57)
NormalizeItem(item, index) ==
    LET qText   == JsOr(item.question, JsString(StrQuestionTextMissing))
        answer  == JsOr(JsOr(item.gold, item.answer), JsString(<<>>))
        subject == mapSubject(item.subject)
        isNum   == item.index.t = "number"
        finalId == IF isNum /\ item.index.n # 0 THEN item.index.n ELSE index + 1
    IN  [id |-> finalId, question |-> JsToString(qText),
       answer |-> JsToString(answer),
         solution |-> JsToString(JsOr(item.solution, JsString(<<>>))),
         subject |-> JsToString(subject)]

\* !item || typeof item !== 'object'
NotAnObject(item) == item.t # "object"

\* list.map(...).filter(q => q !== null && !!q.question)
RECURSIVE MapFilter(_, _)
MapFilter(list, i) ==
    IF i > Len(list) THEN <<>>
    ELSE LET rest == MapFilter(list, i + 1)
         IN  IF NotAnObject(list[i]) THEN rest
             ELSE LET q == NormalizeItem(list[i], i - 1)
                  IN  IF q.question # <<>> THEN <<q>> \o rest ELSE rest

\* the parsed JSON document: t is "null", "number", "array" (items are its elements)
\* or "object" (items are its questions array; hasQuestions is FALSE when the
\* object has no questions array)
RawNull == [t |-> "null", items |-> <<>>, hasQuestions |-> FALSE]
RawNumber == [t |-> "number", items |-> <<>>, hasQuestions |-> FALSE]
RawArray(items) == [t |-> "array", items |-> items, hasQuestions |-> FALSE]
RawObject(items) == [t |-> "object", items |-> items, hasQuestions |-> TRUE]
RawOther == [t |-> "object", items |-> <<>>, hasQuestions |-> FALSE]

\* Array.isArray(data.questions) ? data.questions : (Array.isArray(data) ? data : [])
ListOf(data) ==
    IF data.t = "object" /\ data.hasQuestions THEN data.items
    ELSE IF data.t = "array" THEN data.items
    ELSE <<>>

\* normalizeData raises: data.questions on null, or mapSubject on an item it maps
NormalizeThrows(data) ==
    \/ data.t = "null"
    \/ \E i \in 1..Len(ListOf(data)) :
          /\ ~NotAnObject(ListOf(data)[i])
          /\ MapSubjectThrows(ListOf(data)[i].subject)

normalizeData(data) == MapFilter(ListOf(data), 1)

\* the questions arrays of the modelled documents
MaxItems == 2

ItemLists == UNION {[1..n -> Items] : n \in 0..MaxItems}

RawDocuments ==
    {RawNull, RawNumber, RawOther}
        \cup {RawArray(l) : l \in ItemLists} \cup {RawObject(l) : l \in ItemLists}

\* what fetch and response.json() can do: the fetch is rejected; the response is
\* not ok; its body is no JSON; its body is the document data
Responses ==
    {[kind |-> k, data |-> RawNull] : k \in {"networkError", "notOk", "badJson"}}
        \cup {[kind |-> "json", data |-> d] : d \in RawDocuments}

NoResponse == [kind |-> "none", data |-> RawNull]

---------------------------------------------------------------------------
(* App: state, derived values, handlers and effects *)

\* useMemo filteredQuestions
FilterBySubject(qs, subject) ==
    IF subject # StrAll THEN SelectSeq(qs, LAMBDA q : q.subject = subject) ELSE qs

\* q.question.toLowerCase().includes(lowerQ) || q.solution?.toLowerCase().includes(lowerQ)
SearchHit(q, lowerQ) ==
    \/ Contains(ToLowerCase(q.question), lowerQ)
    \/ Contains(ToLowerCase(q.solution), lowerQ)

FilterBySearch(qs, query) ==
    IF Trim(query) # <<>>
    THEN SelectSeq(qs, LAMBDA q : SearchHit(q, ToLowerCase(query)))
    ELSE qs

filteredQuestions ==
    FilterBySearch(FilterBySubject(questions, selectedSubject), searchQuery)

\* useMemo subjects: 'All' and the subjects of the loaded questions
subjects == {StrAll} \cup {questions[i].subject : i \in 1..Len(questions)}

\* what the user types into the search field
SearchQueries == {<<>>, <<" ">>, <<"C">>}

\* what the user types into the jump field
JumpInputs == {<<>>, <<"0">>, <<"2">>, <<"2", "x">>, <<"-", "1">>}

\* pending setTimeout callbacks of handleNext and handlePrev, at most MaxTimers
MaxTimers == 2

\* the effects that run after a state change: the filter effect (lines 184-187)
\* when a filter changed, then the jump-field effect (lines 190-192) when
\* currentIndex changed
AfterRender(filterChanged, index, flipped, input) ==
    LET index2 == IF filterChanged THEN 0 ELSE index
    IN  /\ currentIndex' = index2
        /\ isFlipped' = IF filterChanged THEN FALSE ELSE flipped
        /\ jumpInput' = IF index2 # currentIndex THEN IntToString(index2 + 1) ELSE input

\* the load effect starts: setStatus('loading') and fetchQuestions() is called
Mount ==
    /\ status = "idle"
    /\ status' = "loading"
    /\ fetchPc' = "fetch"
    /\ UNCHANGED <<questions, currentIndex, isFlipped, searchQuery, selectedSubject,
                   jumpInput, timers, lastJump, response, fetchResult>>
    /\ UNCHANGED renderVars

\* await fetch(DATA_URL) settles, and with an ok response so does await
\* response.json()
FetchSettles ==
    /\ fetchPc = "fetch"
    /\ \E r \in Responses :
          /\ response' = r
          /\ fetchPc' = IF r.kind = "json" THEN "normalize" ELSE "catch"
    /\ UNCHANGED <<status, questions, currentIndex, isFlipped, searchQuery,
                   selectedSubject, jumpInput, timers, lastJump, fetchResult>>
    /\ UNCHANGED renderVars

\* normalizeData(rawData) and the check of its length (lines 69-76)
NormalizeStep ==
    /\ fetchPc = "normalize"
    /\ IF ~NormalizeThrows(response.data) /\ Len(normalizeData(response.data)) # 0
       THEN /\ fetchResult' = normalizeData(response.data)
            /\ fetchPc' = "resolved"
       ELSE /\ fetchResult' = fetchResult
            /\ fetchPc' = "catch"
    /\ UNCHANGED <<status, questions, currentIndex, isFlipped, searchQuery,
                   selectedSubject, jumpInput, timers, lastJump, response>>
    /\ UNCHANGED renderVars

\* the catch block of fetchQuestions: return FALLBACK_DATA
CatchStep ==
    /\ fetchPc = "catch"
    /\ fetchResult' = FALLBACK_DATA
    /\ fetchPc' = "resolved"
    /\ UNCHANGED <<status, questions, currentIndex, isFlipped, searchQuery,
                   selectedSubject, jumpInput, timers, lastJump, response>>
    /\ UNCHANGED renderVars

\* load resumes after await fetchQuestions(): setQuestions and setStatus('success'),
\* or setStatus('error') when the promise was rejected; the finished call's
\* response and result are dropped
LoadSettles ==
    /\ status = "loading"
    /\ fetchPc \in {"resolved", "rejected"}
    /\ IF fetchPc = "resolved"
       THEN questions' = fetchResult /\ status' = "success"
       ELSE questions' = questions /\ status' = "error"
    /\ fetchPc' = "settled"
    /\ response' = NoResponse
    /\ fetchResult' = <<>>
    /\ UNCHANGED <<currentIndex, isFlipped, searchQuery, selectedSubject, jumpInput,
                   timers, lastJump>>
    /\ UNCHANGED renderVars

\* handleNext, from the button or the ArrowRight key
handleNext ==
    /\ currentIndex < Len(filteredQuestions) - 1
    /\ Len(timers) < MaxTimers
    /\ isFlipped' = FALSE
    /\ timers' = Append(timers, 1)
    /\ lastJump' = "none"
    /\ UNCHANGED <<status, questions, currentIndex, searchQuery, selectedSubject,
                   jumpInput, fetchPc, response, fetchResult>>
    /\ UNCHANGED renderVars

\* handlePrev, from the button or the ArrowLeft key
handlePrev ==
    /\ currentIndex > 0
    /\ Len(timers) < MaxTimers
    /\ isFlipped' = FALSE
    /\ timers' = Append(timers, -1)
    /\ lastJump' = "none"
    /\ UNCHANGED <<status, questions, currentIndex, searchQuery, selectedSubject,
                   jumpInput, fetchPc, response, fetchResult>>
    /\ UNCHANGED renderVars

\* the oldest pending timeout fires: setCurrentIndex(prev => prev + 1) or
\* setCurrentIndex(prev => prev - 1), then the jump-field effect
TimerFires ==
    /\ timers # <<>>
    /\ AfterRender(FALSE, currentIndex + Head(timers), isFlipped, jumpInput)
    /\ timers' = Tail(timers)
    /\ lastJump' = "none"
    /\ UNCHANGED <<status, questions, searchQuery, selectedSubject, fetchPc, response,
                   fetchResult>>
    /\ UNCHANGED renderVars

\* handleSearch, or the clear-search button: setSearchQuery, then the effects
handleSearch ==
    /\ status = "success"
    /\ \E value \in SearchQueries :
          /\ searchQuery' = value
          /\ AfterRender(value # searchQuery, currentIndex, isFlipped, jumpInput)
    /\ lastJump' = "none"
    /\ UNCHANGED <<status, questions, selectedSubject, timers, fetchPc, response,
                   fetchResult>>
    /\ UNCHANGED renderVars

\* a subject button: setSelectedSubject(sub), then the effects
SelectSubject ==
    /\ status = "success"
    /\ \E sub \in subjects :
          /\ selectedSubject' = sub
          /\ AfterRender(sub # selectedSubject, currentIndex, isFlipped, jumpInput)
    /\ lastJump' = "none"
    /\ UNCHANGED <<status, questions, searchQuery, timers, fetchPc, response,
                   fetchResult>>
    /\ UNCHANGED renderVars

\* the card is clicked, or Space or Enter is pressed (the key listener is there
\* from the mount on)
Flip ==
    /\ status # "idle"
    /\ isFlipped' = ~isFlipped
    /\ lastJump' = "none"
    /\ UNCHANGED <<status, questions, currentIndex, searchQuery, selectedSubject,
                   jumpInput, timers, fetchPc, response, fetchResult>>
    /\ UNCHANGED renderVars

\* the user edits the jump field: setJumpInput(e.target.value)
TypeJump ==
    /\ status = "success"
    /\ \E value \in JumpInputs : jumpInput' = value
    /\ lastJump' = "none"
    /\ UNCHANGED <<status, questions, currentIndex, isFlipped, searchQuery,
                   selectedSubject, timers, fetchPc, response, fetchResult>>
    /\ UNCHANGED renderVars

\* the range taken zero-based: num >= 0 && num < filteredQuestions.length
JumpInRangeZeroBased(r, length) == ~r.nan /\ r.num >= 0 /\ r.num < length

\* !isNaN(num) && num >= 1 && num <= filteredQuestions.length
JumpInRange(r, length) == ~r.nan /\ r.num >= 1 /\ r.num <= length

\* handleJump: the jump form is submitted
handleJump ==
    /\ status = "success"
    /\ LET num == ParseInt(jumpInput)
       IN  IF JumpInRange(num, Len(filteredQuestions))
           THEN /\ AfterRender(FALSE, num.num - 1, FALSE, jumpInput)
                /\ lastJump' = "accepted"
           ELSE /\ jumpInput' = IntToString(currentIndex + 1)
                /\ lastJump' = "rejected"
                /\ UNCHANGED <<currentIndex, isFlipped>>
    /\ UNCHANGED <<status, questions, searchQuery, selectedSubject, timers, fetchPc,
                   response, fetchResult>>
    /\ UNCHANGED renderVars

AppInit == Init /\ mathStub = "katex"

AppNext ==
    \/ Mount
    \/ FetchSettles
    \/ NormalizeStep
    \/ CatchStep
    \/ LoadSettles
    \/ handleNext
    \/ handlePrev
    \/ TimerFires
    \/ handleSearch
    \/ SelectSubject
    \/ Flip
    \/ TypeJump
    \/ handleJump

SpecApp == AppInit /\ [][AppNext]_vars

---------------------------------------------------------------------------
(* Properties *)

\* extraction is over and the call's table is still there
Extracted == pc \in {"parse", "restore", "done", "thrown"} /\ ~(~textGiven \/ text = <<>>)

\* the Token Table without its keys
TableOf(map) == [i \in 1..Len(map) |-> [type |-> map[i].type, math |-> map[i].math]]

\* number of dollar signs a match of pass k takes as delimiters
DelimDollars(k) == CountOf(Rules[k].open, "$") + CountOf(Rules[k].close, "$")

RECURSIVE DollarsInTable(_, _, _)
DollarsInTable(map, rules, i) ==
    IF i > Len(map) THEN 0
    ELSE DelimDollars(rules[i]) + CountOf(map[i].math, "$") + DollarsInTable(map, rules, i + 1)

\* C1: whenever render returns, every token that extraction inserted has been
\* replaced: for an input that spells no placeholder itself, the returned HTML
\* has no substring of the placeholder form MATHITEM<n>END.
C1_NoTokenLeak ==
    (pc = "done" /\ ~HasPlaceholder(text)) => ~HasPlaceholder(htmlContent)

\* C2: precedence of the $$ rule over the $ rule.  "$$x^2$$ and $y$" gives the
\* table <<Block x^2, Inline y>>; "$a$$b$" gives two Inline entries a and b, both
\* made by the single-dollar pass; and no dollar sign is consumed twice: every
\* dollar of the input is either still in the working text, or a delimiter of
\* exactly one match, or inside the source of exactly one match.
C2_Precedence ==
    Extracted =>
        /\ text = ExPrecedence =>
              TableOf(latexMap) = << [type |-> "block", math |-> <<"x", "^", "2">>],
                                     [type |-> "inline", math |-> <<"y">>] >>
        /\ text = ExAmbiguous =>
              /\ TableOf(latexMap) = << [type |-> "inline", math |-> <<"a">>],
                                        [type |-> "inline", math |-> <<"b">>] >>
              /\ ruleOf = <<4, 4>>
        /\ CountOf(text, "$") =
              CountOf(protectedText, "$") + DollarsInTable(latexMap, ruleOf, 1)

\* C2 witness: both example inputs have been extracted, the first with a $$ match
\* followed by a $ match
C2_Witness ==
    /\ pc = "done"
    /\ text = ExPrecedence
    /\ ruleOf = <<1, 4>>

\* positions i < j of the text where the opener and the closer of a rule both occur,
\* the closer starting after the opener ends
HasPair(t, rule) ==
    \E i \in 1..Len(t) : \E j \in (i + Len(rule.open))..Len(t) :
        MatchAt(t, rule.open, i) /\ MatchAt(t, rule.close, j)

\* no rule has an opener followed by its closer anywhere in the text
NoPair(t) == \A k \in 1..4 : ~HasPair(t, Rules[k])

\* an opener at i that nothing closes: no closer of its rule starts after it, and,
\* for the rules whose closer is spelt like the opener, no such delimiter starts
\* before it either (it would be that one's closer)
UnterminatedAt(t, rule, i) ==
    /\ MatchAt(t, rule.open, i)
    /\ \A j \in (i + Len(rule.open))..Len(t) : ~MatchAt(t, rule.close, j)
    /\ rule.open = rule.close => \A h \in 1..(i - 1) : ~MatchAt(t, rule.open, h)

IsSuffix(u, t) == Len(u) <= Len(t) /\ SubSeq(t, Len(t) - Len(u) + 1, Len(t)) = u

\* C3 as stated: when the text handed to Markdown is ready, every unterminated
\* opener and all the text after it are in it unchanged (they are its tail).
\* Stated for the openers \[, \( and $: a $$ that no $$ closes is always a pair
\* of single dollars as well.
C3_UnterminatedTailKept ==
    (pc = "parse" /\ ~(~textGiven \/ text = <<>>)) =>
        \A k \in 2..4 : \A i \in 1..Len(text) :
            UnterminatedAt(text, Rules[k], i) =>
                IsSuffix(SubSeq(text, i, Len(text)), protectedText)

\* C3 amended: when no rule has an opener followed by its closer in the input,
\* extraction creates no Token Table entry, the whole input reaches the Markdown
\* transform unchanged, and nothing but the Markdown transform can raise;
\* "cost is $5 today" renders as one paragraph with the literal $5.
C3_NoPairPassthrough ==
    /\ (Extracted /\ NoPair(text)) =>
          /\ latexMap = <<>>
          /\ protectedText = text
          /\ counter = 0
          /\ pc = "thrown" => mdThrew
    /\ (pc = "done" /\ text = ExCost) =>
          htmlContent = <<"<p>">> \o ExCost \o <<"</p>", "\n">>

\* C3 witness: an input with a stray delimiter and no complete pair was rendered
C3_Witness ==
    /\ pc = "done"
    /\ text # <<>>
    /\ NoPair(text)
    /\ \E k \in 1..4 : \E i \in 1..Len(text) : UnterminatedAt(text, Rules[k], i)

\* the forEach loop is about to visit an entry
Visiting == pc = "restore" /\ ri <= Len(latexMap)

\* C4: fail-soft restoration.  When the math transform raises for the entry being
\* visited, the step replaces that entry's token by the error fragment, which
\* holds the entry's source and the error detail, logs the failed call, and the
\* loop goes on to the next entry without leaving the callback; an entry for which
\* the transform does not raise is replaced by its rendering.  Only a Markdown
\* failure ever makes render raise, and a render that returns has called the math
\* transform once for every entry, in table order.
C4_FailSoft ==
    /\ [][ (Visiting /\ KatexThrows(latexMap[ri].math)) =>
              /\ pc' = "restore"
              /\ ri' = ri + 1
              /\ latexMap' = latexMap
              /\ rawHtml' = SplitJoin(rawHtml, latexMap[ri].id,
                                      ErrorFragment(latexMap[ri].math))
              /\ Contains(ErrorFragment(latexMap[ri].math), latexMap[ri].math)
              /\ Contains(ErrorFragment(latexMap[ri].math), ErrorDetail)
              /\ katexLog' = Append(katexLog, [math |-> latexMap[ri].math,
                                               displayMode |-> latexMap[ri].type = "block",
                                               threw |-> TRUE]) ]_vars
    /\ [][ (Visiting /\ ~KatexThrows(latexMap[ri].math)) =>
              /\ pc' = "restore"
              /\ ri' = ri + 1
              /\ latexMap' = latexMap
              /\ rawHtml' = SplitJoin(rawHtml, latexMap[ri].id,
                                      KatexHtml(latexMap[ri].math,
                                                latexMap[ri].type = "block")) ]_vars
    /\ [](pc = "thrown" => mdThrew)
    /\ []((pc = "done" /\ text # <<>>) =>
              /\ Len(katexLog) = Len(latexMap)
              /\ \A i \in 1..Len(latexMap) : katexLog[i].math = latexMap[i].math)

\* C4 witness: a render returned in which the math transform raised for one entry
\* and rendered another that the loop visited after the failure, and the returned
\* HTML holds the error fragment of the first and the rendering of the second
C4_Witness ==
    /\ pc = "done"
    /\ \E i, j \in 1..Len(katexLog) :
          /\ i < j
          /\ katexLog[i].threw
          /\ ~katexLog[j].threw
          /\ Contains(htmlContent, ErrorFragment(latexMap[i].math))
          /\ Contains(htmlContent, KatexHtml(latexMap[j].math, latexMap[j].type = "block"))

\* C5: the kind of an entry is decided by the delimiter rule that matched it and by
\* nothing else: Block for the $$ and \[ passes, Inline for the \( and $ passes;
\* every math-transform call is made with the entry's source and in display mode
\* exactly when the entry is Block, whatever the block prop; "\[x+1\]" and
\* "$$x+1$$" both give the single entry Block x+1 and the same single call.
C5_KindByDelimiter ==
    /\ Len(ruleOf) = Len(latexMap)
    /\ \A i \in 1..Len(latexMap) :
          /\ latexMap[i].type \in {"block", "inline"}
          /\ latexMap[i].type = "block" <=> ruleOf[i] \in {1, 2}
    /\ \A i \in 1..Len(katexLog) :
          /\ katexLog[i].math = latexMap[i].math
          /\ katexLog[i].displayMode <=> ruleOf[i] \in {1, 2}
    /\ (Extracted /\ text \in {ExBracketBlock, ExDollarBlock}) =>
          TableOf(latexMap) = << [type |-> "block", math |-> <<"x", "+", "1">>] >>
    /\ (pc = "done" /\ text \in {ExBracketBlock, ExDollarBlock}) =>
          katexLog = << [math |-> <<"x", "+", "1">>, displayMode |-> TRUE,
                         threw |-> FALSE] >>

\* C5 witness: with the block prop set, a render made an inline call for a span of
\* the single-dollar pass and a display call for a span of the \[ pass
C5_Witness ==
    /\ pc = "done"
    /\ block
    /\ \E i, j \in 1..Len(katexLog) :
          /\ ruleOf[i] = 4 /\ ~katexLog[i].displayMode
          /\ ruleOf[j] = 2 /\ katexLog[j].displayMode

\* what the restore loop puts in place of an entry's token
FragmentOf(data) ==
    IF KatexThrows(data.math) THEN ErrorFragment(data.math)
    ELSE KatexHtml(data.math, data.type = "block")

RECURSIVE RestoreAll(_, _, _)
RestoreAll(html, map, i) ==
    IF i > Len(map) THEN html
    ELSE RestoreAll(SplitJoin(html, map[i].id, FragmentOf(map[i])), map, i + 1)

\* the pipeline run on t alone, from counter 0 and an empty table
FreshRender(t) ==
    LET r1 == replaceMath(t, Rule1, 0, <<>>)
        r2 == replaceMath(r1.text, Rule2, r1.counter, r1.map)
        r3 == replaceMath(r2.text, Rule3, r2.counter, r2.map)
        r4 == replaceMath(r3.text, Rule4, r3.counter, r3.map)
    IN  RestoreAll(Marked(r4.text), r4.map, 1)

\* C6: every render call enters extraction with counter 0, an empty table and the
\* input as working text, so its first token is MATHITEM0END and its table has
\* one entry per counter step; and what a call returns is what the pipeline gives
\* on that text alone, whatever calls came before it.
C6_PerCallIndependence ==
    /\ pc = "pass1" => (counter = 0 /\ latexMap = <<>> /\ protectedText = text)
    /\ Extracted =>
          /\ Len(latexMap) = counter
          /\ Len(latexMap) >= 1 => latexMap[1].id = Token(0)
    /\ (pc = "done" /\ text # <<>>) => htmlContent = FreshRender(text)

\* C6 witness: a render of a text with math begins while the counter variable
\* still holds what an earlier render counted up to
C6_Witness ==
    /\ pc = "start"
    /\ counter > 0
    /\ HasPair(text, Rule4)

\* C7: a render of an empty or absent text returns the empty string, and neither
\* replaceMath nor the Markdown transform nor the math transform has been called,
\* and nothing was raised.
C7_EmptyGuard ==
    (pc \notin {"idle", "start"} /\ (~textGiven \/ text = <<>>)) =>
        /\ pc = "done"
        /\ htmlContent = <<>>
        /\ replaceCalls = 0
        /\ markedCalls = 0
        /\ katexLog = <<>>
        /\ ~mdThrew

\* C7 witness: a render of the empty string has returned
C7_Witness == pc = "done" /\ textGiven /\ text = <<>>

\* C8 as stated: "$$$$" and "$ $" each give exactly one entry whose source is the
\* empty string, and the math transform is called with the empty string.
C8_EmptySourceBoth ==
    /\ (Extracted /\ text \in {ExEmptyBlock, ExBlankInline}) =>
          /\ Len(latexMap) = 1
          /\ latexMap[1].math = <<>>
    /\ (pc = "done" /\ text \in {ExEmptyBlock, ExBlankInline}) =>
          /\ Len(katexLog) = 1
          /\ katexLog[1].math = <<>>

\* C8 amended: "$$$$" gives exactly one entry, Block with the empty source, and
\* "$ $" exactly one entry, Inline, whose source is the single space between the
\* dollars; the math transform is called once with that source (the empty string,
\* resp. one space), does not raise, and the render returns.
C8_EmptyAndBlank ==
    /\ (Extracted /\ text = ExEmptyBlock) =>
          TableOf(latexMap) = << [type |-> "block", math |-> <<>>] >>
    /\ (Extracted /\ text = ExBlankInline) =>
          TableOf(latexMap) = << [type |-> "inline", math |-> <<" ">>] >>
    /\ (pc = "done" /\ text = ExEmptyBlock) =>
          katexLog = << [math |-> <<>>, displayMode |-> TRUE, threw |-> FALSE] >>
    /\ (pc = "done" /\ text = ExBlankInline) =>
          katexLog = << [math |-> <<" ">>, displayMode |-> FALSE, threw |-> FALSE] >>
    /\ (text \in {ExEmptyBlock, ExBlankInline} /\ pc = "thrown") => mdThrew

\* C8 witness: the render of "$$$$" returned after calling the math transform with
\* the empty string
C8_Witness ==
    /\ pc = "done"
    /\ text = ExEmptyBlock
    /\ Len(katexLog) = 1
    /\ katexLog[1].math = <<>>

\* C9: once the Markdown transform has raised, the call is in its raised state:
\* it has returned no HTML, the restore loop has not started and the math
\* transform has not been called; the call ends there.
C9_MarkdownFatal ==
    mdThrew =>
        /\ pc = "thrown"
        /\ ri = 0
        /\ rawHtml = <<>>
        /\ htmlContent = <<>>
        /\ katexLog = <<>>

\* C9 witness: the Markdown transform raised in a render whose table has entries
C9_Witness == pc = "thrown" /\ mdThrew /\ Len(latexMap) >= 1

\* C10: the passes never overlap.  For an input that spells no placeholder itself,
\* no Token Table entry's math source contains a placeholder token: no match of a
\* later pass has swallowed a token that an earlier pass put into the working text.
C10_NoTokenInSource ==
    (Extracted /\ ~HasPlaceholder(text)) =>
        \A i \in 1..Len(latexMap) : ~HasPlaceholder(latexMap[i].math)

\* number of places where p occurs in s
Occurrences(s, p) == Cardinality({i \in 1..Len(s) : MatchAt(s, p, i)})

\* C11: token collision freedom.  After extraction no token of the Token Table
\* occurs in the working text more than once: it stands where its span stood and
\* nowhere else, so not inside text the user wrote, and the restore loop replaces
\* nothing but extracted spans.
C11_TokenOnlyAtItsSpan ==
    (pc = "parse" /\ text # <<>>) =>
        \A i \in 1..Len(latexMap) : Occurrences(protectedText, latexMap[i].id) <= 1

\* the orders in which a table of n entries can be iterated
Orders(n) == {p \in [1..n -> 1..n] : \A i, j \in 1..n : i # j => p[i] # p[j]}

\* the table iterated in the order p
Reordered(map, p) == [i \in 1..Len(map) |-> map[p[i]]]

\* C12: restoration order independence.  When the restore loop is about to start,
\* replacing the tokens of the Token Table in any iteration order gives the same
\* final HTML as replacing them in the table's own (insertion) order.
C12_RestoreOrderIndependent ==
    (pc = "restore" /\ ri = 1 /\ ~HasPlaceholder(text)) =>
        \A p \in Orders(Len(latexMap)) :
            RestoreAll(rawHtml, Reordered(latexMap, p), 1) = RestoreAll(rawHtml, latexMap, 1)

\* pass k has run and the next step of the call has not
PassDone(k) == pc = <<"pass2", "pass3", "pass4", "parse">>[k]

\* C13: placeholder numbering.  From the first pass on, the counter equals the
\* number of spans extracted so far and the Token Table has exactly that many
\* entries; the i-th entry (counting from 1) has the token MATHITEM(i-1)END
\* whichever rule made it, so the tokens are pairwise distinct; entries are in
\* pass order; and when a pass has just run on a text that spells no placeholder
\* itself, the tokens it made stand in the working text from left to right in
\* the order of their numbers.
C13_PlaceholderNumbering ==
    /\ pc = "pass1" => counter = 0
    /\ (pc \in {"pass1", "pass2", "pass3", "pass4"} \/ Extracted) =>
          /\ Len(latexMap) = counter
          /\ Len(ruleOf) = counter
          /\ \A i \in 1..Len(latexMap) : latexMap[i].id = Token(i - 1)
          /\ \A i, j \in 1..Len(latexMap) : i # j => latexMap[i].id # latexMap[j].id
          /\ \A i, j \in 1..Len(ruleOf) : i < j => ruleOf[i] <= ruleOf[j]
    /\ \A k \in 1..4 :
          (PassDone(k) /\ ~HasPlaceholder(text)) =>
              \A i, j \in 1..Len(latexMap) :
                  (i < j /\ ruleOf[i] = k /\ ruleOf[j] = k) =>
                      /\ Occurrences(protectedText, latexMap[i].id) = 1
                      /\ Occurrences(protectedText, latexMap[j].id) = 1
                      /\ FindFrom(protectedText, latexMap[i].id, 1)
                            < FindFrom(protectedText, latexMap[j].id, 1)

\* C13 witness: extraction ended with three spans made by three different rules
C13_Witness ==
    /\ pc = "parse"
    /\ counter = 3
    /\ Len(latexMap) = 3
    /\ ruleOf[1] < ruleOf[2]
    /\ ruleOf[2] < ruleOf[3]

---------------------------------------------------------------------------
(* Properties of the App and of fetchQuestions *)

\* C14: after any sequence of next, previous, jump, search, subject and flip
\* events and of firings of the delayed index updates, whenever the filtered
\* question list is not empty, 0 <= currentIndex < filteredQuestions.length, so
\* that filteredQuestions[currentIndex] is a question.
C14_IndexInRange ==
    Len(filteredQuestions) > 0 =>
        (0 <= currentIndex /\ currentIndex < Len(filteredQuestions))

\* C15: handleJump.  A step that submits the jump form, with n what parseInt makes
\* of the jump input: when n is an integer with 1 <= n <= filteredQuestions.length
\* the step sets currentIndex to n - 1 and isFlipped to false; for any other input
\* (not a number, n < 1, n > length) it leaves currentIndex and isFlipped as they
\* were and sets the jump input to the decimal form of currentIndex + 1.
C15_HandleJump ==
    [][ lastJump' # "none" =>
          LET n == ParseInt(jumpInput)
          IN  IF ~n.nan /\ 1 <= n.num /\ n.num <= Len(filteredQuestions)
              THEN /\ currentIndex' = n.num - 1
                   /\ isFlipped' = FALSE
                   /\ lastJump' = "accepted"
              ELSE /\ currentIndex' = currentIndex
                   /\ isFlipped' = isFlipped
                   /\ jumpInput' = IntToString(currentIndex + 1)
                   /\ lastJump' = "rejected" ]_vars

\* C15 witness: a submitted jump to question 2 was accepted while the card was on
\* another question
C15_Witness ==
    /\ lastJump = "accepted"
    /\ currentIndex = 1
    /\ ~isFlipped
    /\ jumpInput = <<"2">>
    /\ Len(filteredQuestions) = 2
    /\ timers = <<>>

\* the items of a document that the filter of normalizeData keeps: objects (their
\* question text is never empty, a missing one being replaced)
HasValidQuestion(data) ==
    \E i \in 1..Len(ListOf(data)) : ~NotAnObject(ListOf(data)[i])

\* C16: fetchQuestions never rejects and always resolves to a non-empty list: to
\* the normalized data when the fetch gave a JSON document with at least one valid
\* question, and to the built-in fallback data otherwise (network error, response
\* not ok, body no JSON, no valid question); so the App's status is never 'error',
\* and once it is 'success' there are questions.
C16_FetchNeverFails ==
    /\ fetchPc # "rejected"
    /\ status \in {"idle", "loading", "success"}
    /\ status = "success" => questions # <<>>
    /\ fetchPc = "resolved" =>
          /\ fetchResult # <<>>
          /\ IF response.kind = "json" /\ HasValidQuestion(response.data)
             THEN fetchResult = normalizeData(response.data)
             ELSE fetchResult = FALLBACK_DATA

====
